---------------------------- MODULE Spec2Model ----------------------------
(***************************************************************************)
(* Model of the deterministic password generator of                        *)
(* src/src/utils/pass-generator.ts: salt derivation, PBKDF2 key            *)
(* stretching, mapping of key bytes onto the character policy and the      *)
(* HMAC-driven Fisher-Yates shuffle, sequenced by generatePassword.        *)
(*                                                                         *)
(* Strings are sequences of one-character strings; byte arrays are         *)
(* sequences over 0..255.  The Web Crypto primitives (SHA-256, HMAC,       *)
(* PBKDF2) are platform code: they are modelled as deterministic functions *)
(* of their inputs, drawn from a family indexed by `seed`.                 *)
(***************************************************************************)
EXTENDS Integers, Sequences, FiniteSets, TLC

\* ------------------------------------------------------------------ bounds
NumCalls == 2          \* generatePassword calls that may be in flight together
MaxSeed == 1           \* the platform digest family is indexed by 0..MaxSeed
MaxLength == 66        \* the longest requested length besides the slider's max
MaxStrLen == 2         \* longest context / rotation string of the salt inputs

\* ------------------------------------------------------- program constants
DefaultLength == 20
DefaultIterations == 600000
\* the floor with a zero dropped
MinIterationsLax == 100000 \div 10
MinIterations == 100000
MinLength == 8
MinBits == 512
\* one byte of key material per character
BitsPerCharShort == 16 \div 2
BitsPerChar == 16
SaltBytes == 16
DigestBytes == 32
SliderMax == 120
SliderMin == 8
\* useState<number>(30)
InitialLength == 30
\* the iterations the App passes
AppIterations == 600000

ValidationError == "length must be at least 8"
ConfigurationError == "iterations must be >= 100,000"
EnvironmentError ==
    "Web Crypto API not available. In Node, use v18+; in browser/Tauri, use a modern runtime."

Calls == 1..NumCalls
Range(s) == {s[x] : x \in DOMAIN s}
Max(a, b) == IF a >= b THEN a ELSE b

\* --------------------------------------------------------- character policy
LOWER == << "a","b","c","d","e","f","g","h","i","j","k","l","m",
            "n","o","p","q","r","s","t","u","v","w","x","y","z" >>
UPPER == << "A","B","C","D","E","F","G","H","I","J","K","L","M",
            "N","O","P","Q","R","S","T","U","V","W","X","Y","Z" >>
DIGITS == << "0","1","2","3","4","5","6","7","8","9" >>
SYMBOLS == << "!","@","#","$","%","^","&","*","(",")","-","_","=","+",
              "[","]","{","}",";",":",",",".","?","/","\\","|","~" >>
ALLSETS == << LOWER, UPPER, DIGITS, SYMBOLS >>

RECURSIVE JoinFrom(_, _)
JoinFrom(seqs, n) == IF n = 0 THEN << >> ELSE JoinFrom(seqs, n - 1) \o seqs[n]
\* the join that drops the last class
CombinedNoSymbols == JoinFrom(ALLSETS, Len(ALLSETS) - 1)
\* ALLSETS.join("")
COMBINED == JoinFrom(ALLSETS, Len(ALLSETS))

\* ------------------------------------------------------------------ strings
\* Characters outside ASCII are written by their code point.
FullwidthBar == "U+FF5C"
NoBreakSpace == "U+00A0"

IndexOf(s, ch) == CHOOSE x \in DOMAIN s : s[x] = ch

\* String.prototype.normalize("NFKC") on one character of the model's alphabet
NFKCChar(ch) ==
    IF ch = FullwidthBar THEN "|"
    ELSE IF ch = NoBreakSpace THEN " "
    ELSE ch

IsSpace(ch) == ch \in {" ", NoBreakSpace}

RECURSIVE TrimStart(_)
TrimStart(s) ==
    IF s # << >> /\ IsSpace(Head(s)) THEN TrimStart(Tail(s)) ELSE s

RECURSIVE TrimEnd(_)
TrimEnd(s) ==
    IF s # << >> /\ IsSpace(s[Len(s)])
    THEN TrimEnd(SubSeq(s, 1, Len(s) - 1))
    ELSE s

\* s.normalize("NFKC").trim()
normText(s) == TrimEnd(TrimStart([x \in DOMAIN s |-> NFKCChar(s[x])]))

RECURSIVE ToDecimal(_)
\* String(n) for a non-negative integer n
ToDecimal(n) ==
    IF n < 10 THEN << DIGITS[n + 1] >>
    ELSE ToDecimal(n \div 10) \o << DIGITS[(n % 10) + 1] >>

\* UTF-8 bytes of one character
Utf8Char(ch) ==
    IF ch \in Range(LOWER) THEN << 96 + IndexOf(LOWER, ch) >>
    ELSE IF ch \in Range(UPPER) THEN << 64 + IndexOf(UPPER, ch) >>
    ELSE IF ch \in Range(DIGITS) THEN << 47 + IndexOf(DIGITS, ch) >>
    ELSE IF ch = "|" THEN << 124 >>
    ELSE IF ch = "-" THEN << 45 >>
    ELSE IF ch = " " THEN << 32 >>
    ELSE IF ch = FullwidthBar THEN << 239, 189, 156 >>
    ELSE IF ch = NoBreakSpace THEN << 194, 160 >>
    ELSE << 63 >>

RECURSIVE EncodeFrom(_, _)
EncodeFrom(s, n) ==
    IF n = 0 THEN << >> ELSE EncodeFrom(s, n - 1) \o Utf8Char(s[n])
\* enc.encode(s)
Encode(s) == EncodeFrom(s, Len(s))

\* concatBytes(a, b)
concatBytes(a, b) == a \o b

\* bytesToInt(b) = b & 0xff
bytesToInt(b) == b % 256


\* ---------------------------------------------------------------- variables
VARIABLES
    env,        \* the host: what getSubtle finds on globalThis / in node
    seed,       \* which member of the digest family the host implements
    calls,      \* calls[c]: the frame of generatePassword call c
    saltCall,   \* the frame of a direct deterministicSalt(context, number) call
    app         \* the App component's state hooks

vars == << env, seed, calls, saltCall, app >>

\* ------------------------------------------------------ platform primitives
RECURSIVE FoldRange(_, _, _)
\* a number in 0..65520 that depends on every byte of s[lo..hi] and its place
FoldRange(s, lo, hi) ==
    IF lo > hi THEN 7
    ELSE IF lo = hi THEN (s[lo] * 257 + lo + 1) % 65521
    ELSE LET mid == (lo + hi) \div 2
         IN  (FoldRange(s, lo, mid) * 31 + FoldRange(s, mid + 1, hi) * 17 + 1)
                 % 65521
\* the element of a one-element set: { e(v) : v \in {x} } computes x once
Only(S) == CHOOSE v \in S : TRUE
Fold(s) == Only({FoldRange(t, 1, Len(t)) : t \in {s}})


\* byte x of the digest whose input folds to h
DigestByte(h, x) ==
    (((h % 4093) + 1) * (2 * x + 1) * 37 + (h \div 4093) * 11
        + x * x * 13 + seed * 101) % 256

\* the n bytes of the digest whose input folds to h
Digest(h, n) == [x \in 1..n |-> DigestByte(h, x)]

\* getSubtle(): globalThis.crypto.subtle, else node's webcrypto when there is
\* no window and the import succeeds, else it throws
getSubtle(e) == e.subtle \/ (~e.window /\ e.nodeCrypto)

\* subtle.digest("SHA-256", data)
sha256(data) == Only({Digest(h, DigestBytes) : h \in {Fold(data)}})

\* a MAC that also reads a buffer the other in-flight calls write
hmacSha256Shared(keyBytes, msg) ==
    Only({Digest(h, DigestBytes) :
             h \in {(Fold(keyBytes) * 3 + Fold(msg) * 7 + 11
                + Cardinality({d \in DOMAIN calls : calls[d].pc = "shuffle"}))
                    % 65521}})

\* subtle.sign("HMAC", importKey(keyBytes), msg)
hmacSha256(keyBytes, msg) ==
    Only({Digest(h, DigestBytes) :
             h \in {(Fold(keyBytes) * 3 + Fold(msg) * 7 + 11) % 65521}})

\* subtle.deriveBits(PBKDF2/SHA-256, importKey(enc.encode(normText(master))), bits):
\* block x of PBKDF2 depends on the password, the salt, the iteration count and x
pbkdf2(master, salt, iterations, bits) ==
    Only({Digest(h, bits \div 8) :
             h \in {(Fold(Encode(normText(master))) * 5 + Fold(salt) * 3
                + (iterations % 65521) + 13) % 65521}})

\* ------------------------------------------------------------ pure pipeline
SaltTag == << "p","w","g","e","n","-","s","a","l","t","-","v","1" >>
ShuffleV1 == << "s","h","u","f","f","l","e","-","v","1" >>
ShuffleNext == << "s","h","u","f","f","l","e","-","n","e","x","t" >>

\* a rotation is a number or a string: [isNum, n, s]
Num(n) == [isNum |-> TRUE, n |-> n, s |-> << >>]
Str(s) == [isNum |-> FALSE, n |-> 0, s |-> s]
\* String(number)
String(r) == IF r.isNum THEN ToDecimal(r.n) ELSE r.s

\* `${tag}|${normText(context)}|${normText(String(number))}`
SaltPayload(context, number) ==
    SaltTag \o << "|" >> \o normText(context) \o << "|" >>
        \o normText(String(number))

\* hash.slice(0, 16)
SaltOf(payload) == SubSeq(sha256(Encode(payload)), 1, SaltBytes)

KeyByteAt(keyBytes, i) == keyBytes[(i % Len(keyBytes)) + 1]

\* the body of mapBytesToPassword past its length check; i is the 0-based index
mapBytesToPassword(keyBytes, length) ==
    [x \in 1..Max(length, Len(ALLSETS)) |->
        LET i == x - 1
            b == KeyByteAt(keyBytes, i)
        IN  IF i < Len(ALLSETS)
            THEN ALLSETS[x][(bytesToInt(b) % Len(ALLSETS[x])) + 1]
            ELSE COMBINED[(bytesToInt(b) % Len(COMBINED)) + 1]]

\* the swap without its temporary: arr[i] = arr[k]; arr[k] = arr[i]
SwapNoTmp(arr, i, k) == [arr EXCEPT ![i + 1] = arr[k + 1]]

\* tmp = arr[i]; arr[i] = arr[k]; arr[k] = tmp   (0-based i, k)
Swap(arr, i, k) ==
    [arr EXCEPT ![i + 1] = arr[k + 1], ![k + 1] = arr[i + 1]]

\* the reduction over a range one short: prf[j] % i
SwapTargetShort(prf, j, i) == prf[j + 1] % i

\* prf[j] % (i + 1)
SwapTarget(prf, j, i) == prf[j + 1] % (i + 1)

\* a slice one short: initial.slice(0, length - 1)
SliceShort(arr, length) == SubSeq(arr, 1, Max(length - 1, 0))

\* initial.slice(0, length)
Slice(arr, length) ==
    SubSeq(arr, 1, IF length < Len(arr) THEN Max(length, 0) ELSE Len(arr))

\* ------------------------------------------------------------------ options
None == [set |-> FALSE, v |-> 0]
Some(v) == [set |-> TRUE, v |-> v]
NoText == [set |-> FALSE, v |-> << >>]
\* o ?? d
Coalesce(o, d) == IF o.set THEN o.v ELSE d

Envs ==
    { [subtle |-> TRUE,  window |-> TRUE,  nodeCrypto |-> FALSE],
      [subtle |-> FALSE, window |-> FALSE, nodeCrypto |-> TRUE],
      [subtle |-> FALSE, window |-> TRUE,  nodeCrypto |-> TRUE],
      [subtle |-> FALSE, window |-> FALSE, nodeCrypto |-> FALSE] }

\* argument tuples of a single call
SeqArgs ==
    [ masterPhrase : { << >>, << " " >>, << "a" >>, << "a", "b" >> },
      number : {1, 2},
      context : { NoText, Some(<< "a" >>) },
      length : { None, Some(7), Some(8), Some(33), Some(34),
                 Some(MaxLength), Some(SliderMax) },
      iterations : { None, Some(50000), Some(99999), Some(100000) } ]

\* argument tuples of calls that run together
ConcArgs ==
    [ masterPhrase : { << "a" >>, << "b" >> },
      number : {1},
      context : { NoText },
      length : { Some(34) },
      iterations : { Some(100000) } ]

\* the frame of a call not made yet
IdleCall ==
    [ pc |-> "idle",
      args |-> [ masterPhrase |-> << >>, number |-> 0, context |-> NoText,
                 length |-> None, iterations |-> None ],
      context |-> << >>, length |-> 0, iterations |-> 0,
      payload |-> << >>, salt |-> << >>, keyBytes |-> << >>,
      arr |-> << >>, prf |-> << >>, j |-> 0, i |-> 0,
      result |-> << >>, err |-> "",
      \* history, for the properties: the primitives invoked, the iteration
      \* count handed to deriveBits, the array as mapped, the stream blocks
      \* generated, the stream bytes consumed, and whether another call was
      \* in flight at one of this call's steps
      prims |-> << >>, work |-> 0, mapped |-> << >>, blocks |-> << >>,
      used |-> << >>, overlap |-> FALSE ]

IdleSalt ==
    [ pc |-> "idle", context |-> << >>, number |-> Num(0),
      payload |-> << >>, salt |-> << >> ]

InFlight == {"salt", "kdf", "map", "seed", "shuffle"}

\* the useState initial values
InitApp ==
    [ text |-> << >>, result |-> << >>, busy |-> FALSE, error |-> "",
      length |-> InitialLength ]

Init ==
    /\ env \in Envs
    /\ seed \in 0..MaxSeed
    /\ calls = [c \in Calls |-> IdleCall]
    /\ saltCall = IdleSalt
    /\ app = InitApp

\* what every step of call c records: whether another call is in flight
Seen(c) == \E d \in Calls \ {c} : calls[d].pc \in InFlight

\* Call d is in the middle of a synchronous run of the shuffle loop: the
\* event loop runs it to its next await (or its return) before any other
\* call's continuation.
Running(d) ==
    /\ calls[d].pc = "shuffle"
    /\ calls[d].used # << >>
    /\ ~(calls[d].i > 0 /\ calls[d].j >= Len(calls[d].prf))

\* call c moves to frame r
Advance(c, r) ==
    /\ \A d \in Calls \ {c} : ~Running(d)
    /\ calls' = [calls EXCEPT ![c] = [r EXCEPT !.overlap = @ \/ Seen(c)]]

Step(c, r) ==
    /\ Advance(c, r)
    /\ UNCHANGED << env, seed, saltCall, app >>

Throw(f, msg) == [f EXCEPT !.pc = "failed", !.err = msg]

\* generatePassword, lines 176-181, entered from frame f0 with arguments a:
\* defaults, the iterations check, and the synchronous head of
\* deterministicSalt up to its first await
Enter(f0, a) ==
    LET context == Coalesce(a.context, << >>)
        length == Coalesce(a.length, DefaultLength)
        iterations == Coalesce(a.iterations, DefaultIterations)
        f == [f0 EXCEPT !.args = a, !.context = context,
                 !.length = length, !.iterations = iterations]
    IN  IF iterations < MinIterations
        THEN Throw(f, ConfigurationError)
        ELSE [f EXCEPT !.pc = "salt",
                 !.payload = SaltPayload(context, Num(a.number))]

GenerateCall(c, A) ==
    /\ calls[c].pc = "idle"
    /\ \E a \in A : Step(c, Enter(calls[c], a))

\* sha256 inside deterministicSalt: getSubtle, digest, slice(0, 16)
SaltDigest(c) ==
    /\ calls[c].pc = "salt"
    /\ LET f == calls[c]
       IN  IF ~getSubtle(env)
           THEN Step(c, Throw(f, EnvironmentError))
           ELSE Step(c, [f EXCEPT !.pc = "kdf", !.salt = SaltOf(f.payload),
                            !.prims = Append(@, "digest")])

\* pbkdf2: getSubtle, importKey, deriveBits of max(512, length * 16) bits
DeriveBits(c) ==
    /\ calls[c].pc = "kdf"
    /\ LET f == calls[c]
       IN  IF ~getSubtle(env)
           THEN Step(c, Throw(f, EnvironmentError))
           ELSE Step(c, [f EXCEPT !.pc = "map",
                            !.keyBytes = pbkdf2(f.args.masterPhrase, f.salt,
                                f.iterations,
                                Max(MinBits, f.length * BitsPerChar)),
                            !.work = f.iterations,
                            !.prims = Append(@, "deriveBits")])

\* mapBytesToPassword(keyBytes, length).split(""), then the head of
\* deterministicShuffle up to its first await
MapBytes(c) ==
    /\ calls[c].pc = "map"
    /\ LET f == calls[c]
       IN  IF f.length < MinLength
           THEN Step(c, Throw(f, ValidationError))
           ELSE LET out == mapBytesToPassword(f.keyBytes, f.length)
                IN  Step(c, [f EXCEPT !.pc = "seed", !.arr = out,
                                 !.mapped = out])

\* prf = hmacSha256(keyBytes, "shuffle-v1"); j = 0; i = arr.length - 1
ShuffleSeed(c) ==
    /\ calls[c].pc = "seed"
    /\ LET f == calls[c]
       IN  IF ~getSubtle(env)
           THEN Step(c, Throw(f, EnvironmentError))
           ELSE LET mac == hmacSha256(f.keyBytes, Encode(ShuffleV1))
                IN  Step(c, [f EXCEPT !.pc = "shuffle", !.prf = mac,
                                 !.j = 0, !.i = Len(f.arr) - 1,
                                 !.blocks = << mac >>,
                                 !.prims = Append(@, "sign")])

\* one loop iteration with j < prf.length: k = prf[j++] % (i + 1), swap, i--
ShuffleSwap(c) ==
    /\ calls[c].pc = "shuffle"
    /\ calls[c].i > 0
    /\ calls[c].j < Len(calls[c].prf)
    /\ LET f == calls[c]
           k == SwapTarget(f.prf, f.j, f.i)
       IN  Step(c, [f EXCEPT !.arr = Swap(f.arr, f.i, k),
                        !.j = f.j + 1, !.i = f.i - 1,
                        !.used = Append(@, [blk |-> Len(f.blocks), pos |-> f.j,
                                            b |-> f.prf[f.j + 1],
                                            i |-> f.i, k |-> k])])

\* j >= prf.length: prf = hmacSha256(keyBytes, prf ++ "shuffle-next"); j = 0
ShuffleExtend(c) ==
    /\ calls[c].pc = "shuffle"
    /\ calls[c].i > 0
    /\ calls[c].j >= Len(calls[c].prf)
    /\ LET f == calls[c]
       IN  IF ~getSubtle(env)
           THEN Step(c, Throw(f, EnvironmentError))
           ELSE LET mac == hmacSha256(f.keyBytes,
                               concatBytes(f.prf, Encode(ShuffleNext)))
                IN  Step(c, [f EXCEPT !.prf = mac, !.j = 0,
                                 !.blocks = Append(@, mac),
                                 !.prims = Append(@, "sign")])

\* the loop ends; return initial.slice(0, length).join("")
Return(c) ==
    /\ calls[c].pc = "shuffle"
    /\ calls[c].i <= 0
    /\ LET f == calls[c]
       IN  Step(c, [f EXCEPT !.pc = "done", !.result = Slice(f.arr, f.length)])

Pipeline(c) ==
    \/ SaltDigest(c)
    \/ DeriveBits(c)
    \/ MapBytes(c)
    \/ ShuffleSeed(c)
    \/ ShuffleSwap(c)
    \/ ShuffleExtend(c)
    \/ Return(c)

\* one generatePassword call, any arguments
Next ==
    \/ GenerateCall(1, SeqArgs)
    \/ Pipeline(1)

Spec == Init /\ [][Next]_vars

\* several generatePassword calls whose awaited stages interleave
NextConc ==
    \/ \E c \in Calls : GenerateCall(c, ConcArgs)
    \/ \E c \in Calls : Pipeline(c)

SpecConc == Init /\ [][NextConc]_vars

\* ------------------------------------------------- deterministicSalt alone
SaltAlphabet == {"a", "|", " ", FullwidthBar}
SaltStrings == UNION {[1..m -> SaltAlphabet] : m \in 0..MaxStrLen}
SaltNumbers == {Num(1), Num(2), Num(12)} \cup {Str(s) : s \in SaltStrings}
SaltInputs == SaltStrings \X SaltNumbers

\* deterministicSalt(context, number) up to the await inside sha256
SaltCall(inputs) ==
    /\ saltCall.pc = "idle"
    /\ \E in \in inputs :
          saltCall' = [saltCall EXCEPT !.pc = "hashing", !.context = in[1],
                          !.number = in[2],
                          !.payload = SaltPayload(in[1], in[2])]
    /\ UNCHANGED << env, seed, calls, app >>

\* getSubtle, digest, return hash.slice(0, 16)
SaltResolve ==
    /\ saltCall.pc = "hashing"
    /\ saltCall' =
           IF ~getSubtle(env)
           THEN [saltCall EXCEPT !.pc = "failed"]
           ELSE [saltCall EXCEPT !.pc = "done", !.salt = SaltOf(saltCall.payload)]
    /\ UNCHANGED << env, seed, calls, app >>

NextSalt ==
    \/ SaltCall(SaltInputs)
    \/ SaltResolve

SpecSalt == Init /\ [][NextSalt]_vars

\* ------------------------------------------------------------------ the App
\* what the user can type into the master passphrase input
AppTexts == { << >>, << " " >>, << "a" >> }
\* the values the slider reports: nothing, or a value in min..max
SliderValues == { None, Some(SliderMin), Some(SliderMax) }

\* disabled={!text || busy}
Disabled(a) == a.text = << >> \/ a.busy

\* the value a failed call rejects with: new Error(msg)
Thrown(f) == [message |-> Some(f.err), string |-> "Error"]

\* the catch block forgets the error
CatchSwallow(e) == ""
\* e?.message ?? String(e)
CatchMessage(e) == Coalesce(e.message, e.string)

\* onChange={(e) => setText(e.target.value)}
SetText ==
    /\ \E t \in AppTexts : app' = [app EXCEPT !.text = t]
    /\ UNCHANGED << env, seed, calls, saltCall >>

\* onValueChange={(v) => setLength(v[0] ?? length)}
SetLength ==
    /\ \E v \in SliderValues :
          app' = [app EXCEPT !.length = Coalesce(v, app.length)]
    /\ UNCHANGED << env, seed, calls, saltCall >>

\* the Generate button's onClick up to its await: setError(""),
\* setResult(""), setBusy(true), and generatePassword(text, 1, {context: "",
\* length, iterations: 600_000}) in a fresh frame
GenerateClick ==
    /\ ~Disabled(app)
    /\ \E c \in Calls :
          /\ calls[c].pc = "idle"
          /\ \A d \in Calls : d < c => calls[d].pc # "idle"
          /\ Advance(c, Enter(calls[c],
                 [ masterPhrase |-> app.text, number |-> 1,
                   context |-> Some(<< >>), length |-> Some(app.length),
                   iterations |-> Some(AppIterations) ]))
    /\ app' = [app EXCEPT !.error = "", !.result = << >>, !.busy = TRUE]
    /\ UNCHANGED << env, seed, saltCall >>

\* the onClick after its await: setResult(pwd), or the catch block's
\* setError(e?.message ?? String(e)); then finally setBusy(false)
ClickSettle(c) ==
    /\ calls[c].pc \in {"done", "failed"}
    /\ app' = IF calls[c].pc = "done"
              THEN [app EXCEPT !.result = calls[c].result, !.busy = FALSE]
              ELSE [app EXCEPT !.error = CatchMessage(Thrown(calls[c])),
                       !.busy = FALSE]
    /\ calls' = [calls EXCEPT ![c] = IdleCall]
    /\ UNCHANGED << env, seed, saltCall >>

NextApp ==
    \/ SetText
    \/ SetLength
    \/ GenerateClick
    \/ \E c \in Calls : Pipeline(c)
    \/ \E c \in Calls : ClickSettle(c)

\* the event loop runs every continuation that is ready: the platform's
\* promises settle and the onClick resumes
SpecApp ==
    /\ Init
    /\ [][NextApp]_vars
    /\ WF_vars(\E c \in Calls : Pipeline(c))
    /\ WF_vars(\E c \in Calls : ClickSettle(c))


\* =============================================================== properties
Returned(c) == calls[c].pc = "done"
Failed(c) == calls[c].pc = "failed"
Settled(c) == Returned(c) \/ Failed(c)
HasClass(str, set) == \E x \in DOMAIN str : str[x] \in Range(set)
Count(str, ch) == Cardinality({x \in DOMAIN str : str[x] = ch})

\* C1 (SpecConc): any two generatePassword calls with identical arguments
\* end the same way and, when they return, return the identical string,
\* whatever other calls were in flight and however their stages interleaved.
Determinism ==
    \A c, d \in Calls :
        (Settled(c) /\ Settled(d) /\ calls[c].args = calls[d].args)
            => /\ calls[c].pc = calls[d].pc
               /\ calls[c].result = calls[d].result
               /\ calls[c].err = calls[d].err

\* two calls with identical arguments have both returned, each having taken
\* steps while the other was in flight and each having awaited a second
\* stream block inside its shuffle
DeterminismWitness ==
    \E c, d \in Calls :
        /\ c # d
        /\ Returned(c) /\ Returned(d)
        /\ calls[c].args = calls[d].args
        /\ calls[c].overlap /\ calls[d].overlap
        /\ Len(calls[c].blocks) = 2

\* C2 (Spec): every call that returns a password returns exactly `length`
\* characters, and exactly 20 when options.length is omitted.
LengthInvariant ==
    \A c \in Calls :
        Returned(c) =>
            Len(calls[c].result) =
                (IF calls[c].args.length.set THEN calls[c].args.length.v ELSE 20)

\* a call without options.length has returned its 20 characters
LengthWitness ==
    \E c \in Calls :
        /\ Returned(c)
        /\ ~calls[c].args.length.set
        /\ Len(calls[c].result) = 20

HasMaster(c) == normText(calls[c].args.masterPhrase) # << >>

\* C4 (Spec): a call with a master phrase, length < 8 and valid iterations
\* fails with the ValidationError and returns no password, and such a call
\* with length = 8 on a host with Web Crypto returns a password.
LengthFloor ==
    \A c \in Calls :
        LET f == calls[c]
            len == Coalesce(f.args.length, 20)
            its == Coalesce(f.args.iterations, 600000)
        IN  (Settled(c) /\ HasMaster(c) /\ its >= 100000) =>
                /\ len < 8 => (Failed(c) /\ f.err = ValidationError)
                /\ (len = 8 /\ getSubtle(env)) => Returned(c)

\* C5 (Spec): a call with iterations < 100,000 fails with the
\* ConfigurationError before any primitive (so before any key derivation) is
\* invoked; a call with iterations = 100,000, a valid length and Web Crypto
\* returns a password; with options.iterations omitted deriveBits is handed
\* 600,000 iterations.
IterationFloor ==
    \A c \in Calls :
        LET f == calls[c]
            its == f.args.iterations
        IN  f.pc # "idle" =>
                /\ (its.set /\ its.v < 100000)
                      => (Failed(c) /\ f.err = ConfigurationError
                            /\ f.prims = << >>)
                /\ (its.set /\ its.v = 100000 /\ Settled(c) /\ getSubtle(env)
                        /\ Coalesce(f.args.length, 20) >= 8)
                      => Returned(c)
                /\ ~its.set
                      => /\ f.err # ConfigurationError
                         /\ f.iterations = 600000
                         /\ "deriveBits" \in Range(f.prims) => f.work = 600000

\* a call with iterations = 50,000 has failed with the ConfigurationError
IterationFloorWitness ==
    \E c \in Calls :
        /\ Failed(c)
        /\ calls[c].args.iterations = Some(50000)
        /\ calls[c].err = ConfigurationError

\* C6 (Spec): a call whose master phrase is empty, or empty after
\* normalization and trim, never returns a password.
EmptyMasterRejected ==
    \A c \in Calls :
        (calls[c].pc # "idle" /\ normText(calls[c].args.masterPhrase) = << >>)
            => ~Returned(c)

\* C7 (Spec): in a call with a master phrase and length < 8 no primitive
\* (digest, deriveBits, sign) is ever invoked, and when its iterations are
\* valid it fails with the ValidationError, Web Crypto or not.
UpFrontValidation ==
    \A c \in Calls :
        LET f == calls[c]
        IN  (f.pc # "idle" /\ HasMaster(c)
                /\ Coalesce(f.args.length, 20) < 8) =>
                /\ f.prims = << >>
                /\ (Failed(c) /\ Coalesce(f.args.iterations, 600000) >= 100000)
                      => f.err = ValidationError

Disjoint(a, b) == Range(a) \cap Range(b) = {}

\* the mapper's output at 0-based positions 4..length-1 is the key byte at
\* i mod keyBytes.length reduced modulo n, as an index into COMBINED
MapperReduces(n) ==
    \A c \in Calls :
        calls[c].pc = "seed" =>
            \A i \in 4..(calls[c].length - 1) :
                calls[c].arr[i + 1] =
                    COMBINED[(KeyByteAt(calls[c].keyBytes, i) % n) + 1]

ClassesDisjoint ==
    /\ Disjoint(LOWER, UPPER) /\ Disjoint(LOWER, DIGITS)
    /\ Disjoint(LOWER, SYMBOLS) /\ Disjoint(UPPER, DIGITS)
    /\ Disjoint(UPPER, SYMBOLS) /\ Disjoint(DIGITS, SYMBOLS)

\* C8 as claimed (Spec): class sizes 26, 26, 10 and 30, a combined alphabet of
\* 92 distinct characters, and bytes reduced modulo 92.
CharacterPolicyAsClaimed ==
    /\ Len(LOWER) = 26 /\ Len(UPPER) = 26 /\ Len(DIGITS) = 10
    /\ Len(SYMBOLS) = 30
    /\ ClassesDisjoint
    /\ COMBINED = LOWER \o UPPER \o DIGITS \o SYMBOLS
    /\ Len(COMBINED) = 92 /\ Cardinality(Range(COMBINED)) = 92
    /\ MapperReduces(92)

\* C8 (Spec), amended: the four classes are pairwise disjoint with sizes 26,
\* 26, 10 and 27, the combined alphabet is their concatenation with exactly
\* 89 distinct characters, and the mapper reduces each key byte for positions
\* 4..length-1 modulo 89.
CharacterPolicy ==
    /\ Len(LOWER) = 26 /\ Len(UPPER) = 26 /\ Len(DIGITS) = 10
    /\ Len(SYMBOLS) = 27
    /\ ClassesDisjoint
    /\ COMBINED = LOWER \o UPPER \o DIGITS \o SYMBOLS
    /\ Len(COMBINED) = 89 /\ Cardinality(Range(COMBINED)) = 89
    /\ MapperReduces(89)

\* the mapper has just run on key bytes of which one, at a position past the
\* first four, is 89 or more: there the modulus decides the character
CharacterPolicyWitness ==
    \E c \in Calls :
        /\ calls[c].pc = "seed"
        /\ \E i \in 4..(calls[c].length - 1) :
              /\ KeyByteAt(calls[c].keyBytes, i) >= 89
              /\ calls[c].arr[i + 1] \in Range(SYMBOLS)

\* C9 (SpecSalt): every (context, rotation) pair whose normalized context or
\* normalized rotation string differs from the call's has a different salt
\* payload, and every pair that normalizes to the call's has the call's salt.
SaltSeparation ==
    saltCall.pc # "idle" =>
        \A in \in SaltInputs :
            LET same == /\ normText(in[1]) = normText(saltCall.context)
                        /\ normText(String(in[2]))
                              = normText(String(saltCall.number))
            IN  /\ ~same => SaltPayload(in[1], in[2]) # saltCall.payload
                /\ (same /\ saltCall.pc = "done")
                      => SaltOf(SaltPayload(in[1], in[2])) = saltCall.salt

\* C10 (Spec): the shuffle visits i = length-1 down to 1 once each, consumes
\* one stream byte per visit and the stream bytes in order without reuse,
\* swaps i with b mod (i+1), opens a new block (the MAC of the prior block
\* followed by "shuffle-next") exactly when the 32 bytes of the current one
\* are consumed and another byte is needed, and returns a permutation of the
\* mapper's output.
ShuffleDiscipline ==
    \A c \in Calls :
        LET f == calls[c]
            u == f.used
            n == Len(f.mapped)
            nb == Len(f.blocks)
        IN  f.pc \in {"shuffle", "done"} =>
                /\ Len(f.arr) = n
                /\ f.i = n - 1 - Len(u)
                /\ Returned(c) => (f.i = 0 /\ Len(u) = n - 1)
                /\ \A m \in DOMAIN u :
                      /\ u[m].i = n - m
                      /\ u[m].blk = ((m - 1) \div 32) + 1
                      /\ u[m].pos = (m - 1) % 32
                      /\ u[m].b = f.blocks[u[m].blk][u[m].pos + 1]
                      /\ u[m].k = u[m].b % (u[m].i + 1)
                      /\ u[m].k \in 0..u[m].i
                /\ f.j \in 0..32
                /\ Len(u) = (nb - 1) * 32 + f.j
                /\ (nb > 1 /\ f.j = 0) => f.i > 0
                /\ (f.j = 0 \/ Returned(c)) =>
                      /\ f.blocks[1] = hmacSha256(f.keyBytes, Encode(ShuffleV1))
                      /\ \A x \in 2..nb :
                            f.blocks[x] = hmacSha256(f.keyBytes,
                                f.blocks[x - 1] \o Encode(ShuffleNext))
                      /\ \A ch \in Range(f.mapped) \cup Range(f.arr) :
                            Count(f.arr, ch) = Count(f.mapped, ch)
                /\ Returned(c) => f.result = f.arr

\* a shuffle of 120 characters has returned after opening its fourth block
ShuffleDisciplineWitness ==
    \E c \in Calls :
        /\ Returned(c)
        /\ Len(calls[c].mapped) = 120
        /\ Len(calls[c].blocks) = 4
        /\ Len(calls[c].used) = 119
        /\ calls[c].result # calls[c].mapped

\* the byte values 0..255 that the reduction sends to target t at index i
BytesTo(t, i) == {b \in 0..255 : SwapTarget(<< b >>, 0, i) = t}

\* C11 (Spec): at every index i the shuffle visits, every target in [0, i] is
\* selected by the same number of the 256 byte values.
UnbiasedReduction ==
    \A c \in Calls :
        (calls[c].pc = "shuffle" /\ calls[c].i > 0) =>
            \A t \in 0..calls[c].i :
                Cardinality(BytesTo(t, calls[c].i))
                    = Cardinality(BytesTo(0, calls[c].i))

\* C12 (Spec): once derived, the key of a call with length >= 8 has exactly
\* max(512, length*16)/8 bytes, at least 2*length, so i mod keyBytes.length
\* is i for every output position i and the mapper's character at position
\* i is the one of key byte i: no key byte serves two positions.
KeyNeverReused ==
    \A c \in Calls :
        LET f == calls[c]
            len == Coalesce(f.args.length, 20)
            bits == IF len * 16 > 512 THEN len * 16 ELSE 512
        IN  (f.pc \in {"map", "seed", "shuffle", "done"} /\ len >= 8) =>
                /\ Len(f.keyBytes) = bits \div 8
                /\ Len(f.keyBytes) >= 2 * len
                /\ \A i \in 0..(len - 1) : i % Len(f.keyBytes) = i
                /\ f.pc # "map" =>
                      \A i \in 0..(len - 1) :
                          f.mapped[i + 1] =
                              IF i < 4
                              THEN ALLSETS[i + 1][(f.keyBytes[i + 1]
                                        % Len(ALLSETS[i + 1])) + 1]
                              ELSE COMBINED[(f.keyBytes[i + 1]
                                        % Len(COMBINED)) + 1]

\* a call of length 120 has returned: its key is the 240 bytes of 1920 bits,
\* past the 512-bit floor
KeyNeverReusedWitness ==
    \E c \in Calls :
        /\ Returned(c)
        /\ calls[c].args.length = Some(120)
        /\ Len(calls[c].keyBytes) = 240

\* the generatePassword calls the App has started and not yet consumed
Pending == {c \in Calls : calls[c].pc # "idle"}

\* what the App shows in every state
AppShown ==
    /\ ~(app.result # << >> /\ app.error # "")
    /\ Cardinality(Pending) <= 1
    /\ app.busy <=> Pending # {}
    /\ app.busy => (app.result = << >> /\ app.error = "")

\* a call is started only by an enabled Generate button
AppStarts ==
    \A c \in Calls :
        (calls[c].pc = "idle" /\ calls'[c].pc # "idle") =>
            (~app.busy /\ app.text # << >> /\ app'.busy /\ Pending = {})

\* a settled call is consumed by showing its outcome
AppSettles ==
    \A c \in Calls :
        (calls[c].pc \in {"done", "failed"} /\ calls'[c].pc = "idle") =>
            /\ ~app'.busy
            /\ calls[c].pc = "failed" =>
                  (app'.error = calls[c].err /\ app'.error # ""
                      /\ app'.result = << >>)
            /\ calls[c].pc = "done" =>
                  (app'.result = calls[c].result /\ app'.result # << >>
                      /\ app'.error = "")

\* C13 (SpecApp): every Generate click ends with busy = false; a failed call
\* shows a non-empty error and no result, a successful one its result and no
\* error; result and error are never both shown; while busy no second
\* generatePassword call is started.
ErrorSurfacing ==
    /\ []AppShown
    /\ [][AppStarts /\ AppSettles]_vars
    /\ (app.busy ~> ~app.busy)

\* a Generate click has ended in failure: the error is shown, nothing else
ErrorSurfacingWitness ==
    /\ ~app.busy
    /\ app.error =
           "Web Crypto API not available. In Node, use v18+; in browser/Tauri, use a modern runtime."
    /\ app.result = << >>
    /\ Pending = {}

=============================================================================
